---- MODULE Spec2Model ----
(***************************************************************************)
(* Result extraction from a query response (lib/src/api/opt/query.rs).     *)
(*                                                                         *)
(* A response is a map from statement index to (statistics, outcome); the  *)
(* QueryResult impls take results out of it by index or by (index, key),   *)
(* as an exact Value, an Option<T> or a Vec<T>.  T is a 64-bit integer.    *)
(***************************************************************************)
EXTENDS Integers, Sequences, FiniteSets, TLC

VARIABLES
    map,        \* the caller's response map: index -> [stats, result]
    carried,    \* the map owned by the latest LossyTake error (empty if none)
    last,       \* the latest call: selector, shape, target map and what it returned
    pre,        \* the target map as it was before the latest call
    post,       \* the target map as the latest call left it
    stats0,     \* the statistics of every slot at construction
    seen,       \* per index: the shapes of the calls at it that returned the
                \* statement's own failure, in call order (at most two are kept)
    mrg,        \* a merge: its target, its patch and what applying the patch gave
    geo,        \* a session of geometry statements: its parameters and latest result
    qry,        \* an input given to into_query and what it returned
    upg         \* a run of the upgrade command: its position and the executable

vars == <<map, carried, last, pre, post, stats0, seen, mrg, geo, qry, upg>>

----------------------------------------------------------------------------
(* Bounds *)

NumSlots == 2       \* statements per batch
MaxLen == 2         \* longest result array

Indices == 0 .. (NumSlots - 1)
Keys == {"id", "v"}
NoKey == "-"

----------------------------------------------------------------------------
(* sql::Value, restricted to the shapes the extraction code tells apart *)

None == [tag |-> "None"]
Null == [tag |-> "Null"]
Number(n) == [tag |-> "Number", n |-> n]
Strand(s) == [tag |-> "Strand", s |-> s]
Array(vec) == [tag |-> "Array", vec |-> vec]
Object(obj) == [tag |-> "Object", obj |-> obj]

\* The field a record of the batch holds under each key.
FieldOf(k) == IF k = "id" THEN Strand("t:1") ELSE Number(5)

Objects == {Object([k \in D |-> FieldOf(k)]) : D \in SUBSET Keys}
Scalars == {None, Null, Number(5), Strand("t:1")}
Record == Object([k \in Keys |-> FieldOf(k)])
\* Result arrays: empty, one element, two distinct numbers, or up to MaxLen
\* numbers and records.
Arrays ==
    {Array(<< >>)} \cup {Array(<<e>>) : e \in {Null, Number(5), Record}}
        \cup {Array(<<Number(7), Number(5)>>)}
        \cup {Array(vec) : vec \in UNION {[1 .. n -> {Number(5), Record}] : n \in 2 .. MaxLen}}
Values == Scalars \cup Objects \cup Arrays

\* method::Stats of the statement at index i; every statement has its own.
StatsOf(i) == [execution_time |-> 10 + i]

\* Error kinds of api::err::Error seen by the extraction code, and the
\* failure a statement itself produced.
Failure == "E"
ConnectionUninitialised == "ConnectionUninitialised"
LossyTake == "LossyTake"
FromValue == "FromValue"

Ok(v) == [kind |-> "Ok", val |-> v]
Err(e) == [kind |-> "Err", err |-> e]

Outcomes == {Ok(v) : v \in Values} \cup {Err(Failure)}

EmptyMap == << >>

\* IndexMap::remove
Remove(m, i) == [j \in DOMAIN m \ {i} |-> m[j]]

----------------------------------------------------------------------------
(* What a call hands back: the map it leaves behind, the returned Result   *)
(* and, for a LossyTake error, the map the error owns.                     *)

Out(m, ret) == [map |-> m, ret |-> ret, lossy |-> FALSE, carried |-> EmptyMap]

\* Option<T> and Vec<T> as returned to the caller
NoValue == [tag |-> "NoValue"]
Some(n) == [tag |-> "Some", n |-> n]
Vec(ns) == [tag |-> "Vec", vec |-> ns]

\* from_value::<Option<i64>>: none and null decode to no value, an integer
\* to itself, anything else is a decode error.
from_value_Option(value) ==
    IF value.tag \in {"None", "Null"} THEN Ok(NoValue)
    ELSE IF value.tag = "Number" THEN Ok(Some(value.n))
    ELSE Err(FromValue)

\* from_value::<Vec<i64>>: every element has to decode, in order.
from_value_Vec(vec) ==
    IF \A n \in 1 .. Len(vec) : vec[n].tag = "Number"
    THEN Ok(Vec([n \in 1 .. Len(vec) |-> vec[n].n]))
    ELSE Err(FromValue)

TakeError_replaced(m, i) ==
    Out([m EXCEPT ![i].result = Err(ConnectionUninitialised)], Err(m[i].result.err))

TakeError_cleared(m, i) == Out(EmptyMap, Err(m[i].result.err))

TakeError_copied(m, i) == Out(m, Err(m[i].result.err))

\* The Err arm shared by the get_mut impls: the stored error is swapped for
\* ConnectionUninitialised, the slot is removed, the original is returned.
TakeError(m, i) ==
    LET error == m[i].result.err
        replaced == [m EXCEPT ![i].result = Err(ConnectionUninitialised)]
    IN  Out(Remove(replaced, i), Err(error))

TakeMap_cloned(m) ==
    [map |-> m, ret |-> Err(LossyTake), lossy |-> TRUE, carried |-> m]

\* Err(Error::LossyTake(QueryResponse(mem::take(map)))): the whole map moves
\* into the error and the caller is left with the default (empty) map.
TakeMap(m) ==
    [map |-> EmptyMap, ret |-> Err(LossyTake), lossy |-> TRUE, carried |-> m]

Value_usize_query_result_get(m, i) ==
    IF i \in DOMAIN m
    THEN IF m[i].result.kind = "Err"
         THEN Out(Remove(m, i), Err(m[i].result.err))
         ELSE Out(m, Ok(m[i].result.val))
    ELSE Out(m, Ok(None))

\* impl QueryResult<Value> for usize
Value_usize_query_result(m, i) ==
    IF i \in DOMAIN m
    THEN IF m[i].result.kind = "Err"
         THEN Out(Remove(m, i), Err(m[i].result.err))
         ELSE Out(Remove(m, i), Ok(m[i].result.val))
    ELSE Out(m, Ok(None))

Option_usize_query_result_first(m, i) ==
    IF i \notin DOMAIN m THEN Out(m, Ok(NoValue))
    ELSE IF m[i].result.kind = "Err" THEN TakeError(m, i)
    ELSE LET value == m[i].result.val IN
         IF value.tag = "Array"
         THEN IF Len(value.vec) = 0
              THEN Out(Remove(m, i), Ok(NoValue))
              ELSE Out(Remove(m, i), from_value_Option(value.vec[1]))
         ELSE Out(Remove(m, i), from_value_Option(value))

Option_usize_query_result_remove_first(m, i) ==
    IF i \notin DOMAIN m THEN Out(m, Ok(NoValue))
    ELSE IF m[i].result.kind = "Err" THEN TakeError(m, i)
    ELSE LET value == m[i].result.val IN
         IF value.tag = "Array"
         THEN CASE Len(value.vec) = 0 -> Out(Remove(m, i), Ok(NoValue))
                [] Len(value.vec) = 1 ->
                       Out(Remove(m, i), from_value_Option(value.vec[1]))
                [] OTHER -> TakeMap(Remove(m, i))
         ELSE Out(Remove(m, i), from_value_Option(value))

\* impl QueryResult<Option<T>> for usize
Option_usize_query_result(m, i) ==
    IF i \notin DOMAIN m THEN Out(m, Ok(NoValue))
    ELSE IF m[i].result.kind = "Err" THEN TakeError(m, i)
    ELSE LET value == m[i].result.val IN
         IF value.tag = "Array"
         THEN CASE Len(value.vec) = 0 -> Out(Remove(m, i), Ok(NoValue))
                [] Len(value.vec) = 1 ->
                       Out(Remove(m, i), from_value_Option(value.vec[1]))
                [] OTHER ->
                       LET taken == TakeMap(m)
                       IN  [taken EXCEPT !.map = Remove(taken.map, i)]
         ELSE Out(Remove(m, i), from_value_Option(value))

\* BTreeMap::remove on the fields of an Object
ObjRemove(obj, key) == [k \in DOMAIN obj \ {key} |-> obj[k]]

\* Assignment through the &mut Value borrowed from slot i
SetValue(m, i, value) == [m EXCEPT ![i].result = Ok(value)]

Value_key_query_result_removing(m, index, key) ==
    IF index \notin DOMAIN m THEN Out(m, Ok(None))
    ELSE IF m[index].result.kind = "Err" THEN TakeError(m, index)
    ELSE LET response == m[index].result.val IN
         IF response.tag = "Object"
         THEN Out(SetValue(m, index, Object(ObjRemove(response.obj, key))),
                  Ok(IF key \in DOMAIN response.obj THEN response.obj[key] ELSE None))
         ELSE Out(Remove(m, index), Ok(None))

\* impl QueryResult<Value> for (usize, &str)
Value_key_query_result(m, index, key) ==
    IF index \notin DOMAIN m THEN Out(m, Ok(None))
    ELSE IF m[index].result.kind = "Err" THEN TakeError(m, index)
    ELSE LET response == m[index].result.val IN
         IF response.tag = "Object"
         THEN Out(SetValue(m, index, Object(ObjRemove(response.obj, key))),
                  Ok(IF key \in DOMAIN response.obj THEN response.obj[key] ELSE None))
         ELSE Out(m, Ok(None))

\* The value a keyed Option take works on: the stored value, or the only
\* element of a stored one-element array (borrowed in place).
Single(stored) == stored.tag = "Array" /\ Len(stored.vec) = 1
Resolved(stored) == IF Single(stored) THEN stored.vec[1] ELSE stored

\* What slot `index` holds once the resolved value has been changed to `value`
SetResolved(m, index, value) ==
    SetValue(m, index,
             IF Single(m[index].result.val) THEN Array(<<value>>) ELSE value)

Option_key_match_clearing(m, index, key) ==
    LET value == Resolved(m[index].result.val) IN
    IF value.tag \in {"None", "Null"}
        THEN Out(Remove(m, index), Ok(NoValue))
    ELSE IF value.tag = "Object"
        THEN IF DOMAIN value.obj = {}
                 THEN Out(Remove(m, index), Ok(NoValue))
             ELSE IF key \notin DOMAIN value.obj
                 THEN Out(m, Ok(NoValue))
             ELSE Out(SetResolved(m, index, Object(<< >>)),
                      from_value_Option(value.obj[key]))
    ELSE Out(m, Ok(NoValue))

Option_key_match_swallowing(m, index, key) ==
    LET value == Resolved(m[index].result.val) IN
    IF value.tag \in {"None", "Null"}
        THEN Out(Remove(m, index), Ok(NoValue))
    ELSE IF value.tag = "Object"
        THEN IF DOMAIN value.obj = {}
                 THEN Out(Remove(m, index), Ok(NoValue))
             ELSE IF key \notin DOMAIN value.obj
                 THEN Out(m, Ok(NoValue))
             ELSE Out(SetResolved(m, index, Object(ObjRemove(value.obj, key))),
                      IF from_value_Option(value.obj[key]).kind = "Err"
                      THEN Ok(NoValue)
                      ELSE from_value_Option(value.obj[key]))
    ELSE Out(m, Ok(NoValue))

Option_key_match_consuming(m, index, key) ==
    LET value == Resolved(m[index].result.val) IN
    IF value.tag \in {"None", "Null"}
        THEN Out(Remove(m, index), Ok(NoValue))
    ELSE IF value.tag = "Object"
        THEN IF DOMAIN value.obj = {}
                 THEN Out(Remove(m, index), Ok(NoValue))
             ELSE IF key \notin DOMAIN value.obj
                 THEN Out(m, Ok(NoValue))
             ELSE Out(Remove(m, index), from_value_Option(value.obj[key]))
    ELSE Out(m, Ok(NoValue))

Option_key_match_missing_removes(m, index, key) ==
    LET value == Resolved(m[index].result.val) IN
    IF value.tag \in {"None", "Null"}
        THEN Out(Remove(m, index), Ok(NoValue))
    ELSE IF value.tag = "Object"
        THEN IF DOMAIN value.obj = {} \/ key \notin DOMAIN value.obj
                 THEN Out(Remove(m, index), Ok(NoValue))
             ELSE Out(SetResolved(m, index, Object(ObjRemove(value.obj, key))),
                      from_value_Option(value.obj[key]))
    ELSE Out(m, Ok(NoValue))

\* impl QueryResult<Option<T>> for (usize, &str): the match on the resolved value
Option_key_match(m, index, key) ==
    LET value == Resolved(m[index].result.val) IN
    IF value.tag \in {"None", "Null"}
        THEN Out(Remove(m, index), Ok(NoValue))
    ELSE IF value.tag = "Object"
        THEN IF DOMAIN value.obj = {}
                 THEN Out(Remove(m, index), Ok(NoValue))
             ELSE IF key \notin DOMAIN value.obj
                 THEN Out(m, Ok(NoValue))
             ELSE Out(SetResolved(m, index, Object(ObjRemove(value.obj, key))),
                      from_value_Option(value.obj[key]))
    ELSE Out(m, Ok(NoValue))

\* impl QueryResult<Option<T>> for (usize, &str)
Option_key_query_result(m, index, key) ==
    IF index \notin DOMAIN m THEN Out(m, Ok(NoValue))
    ELSE IF m[index].result.kind = "Err" THEN TakeError(m, index)
    ELSE LET stored == m[index].result.val IN
         IF stored.tag = "Array" /\ Len(stored.vec) = 0
             THEN Out(Remove(m, index), Ok(NoValue))
         ELSE IF stored.tag = "Array" /\ Len(stored.vec) > 1
             THEN TakeMap(m)
         ELSE Option_key_match(m, index, key)

Vec_usize_query_result_partial(m, i) ==
    IF i \notin DOMAIN m THEN Out(m, Ok(Vec(<< >>)))
    ELSE IF m[i].result.kind = "Err" THEN Out(Remove(m, i), Err(m[i].result.err))
    ELSE LET value == m[i].result.val
             vec == IF value.tag = "Array" THEN value.vec ELSE <<value>>
         IN  Out(Remove(m, i),
                 from_value_Vec(SelectSeq(vec, LAMBDA e : e.tag = "Number")))

Vec_usize_query_result_keeping(m, i) ==
    IF i \notin DOMAIN m THEN Out(m, Ok(Vec(<< >>)))
    ELSE IF m[i].result.kind = "Err" THEN Out(Remove(m, i), Err(m[i].result.err))
    ELSE LET value == m[i].result.val
             vec == IF value.tag = "Array" THEN value.vec ELSE <<value>>
         IN  IF from_value_Vec(vec).kind = "Err"
             THEN Out(m, from_value_Vec(vec))
             ELSE Out(Remove(m, i), from_value_Vec(vec))

\* impl QueryResult<Vec<T>> for usize
Vec_usize_query_result(m, i) ==
    IF i \notin DOMAIN m THEN Out(m, Ok(Vec(<< >>)))
    ELSE IF m[i].result.kind = "Err" THEN Out(Remove(m, i), Err(m[i].result.err))
    ELSE LET value == m[i].result.val
             vec == IF value.tag = "Array" THEN value.vec ELSE <<value>>
         IN  Out(Remove(m, i), from_value_Vec(vec))

Vec_key_query_result_arrays_only(m, index, key) ==
    IF index \notin DOMAIN m THEN Out(m, Ok(Vec(<< >>)))
    ELSE IF m[index].result.kind = "Err" THEN TakeError(m, index)
    ELSE LET val == m[index].result.val
             response == IF val.tag = "Array" THEN val.vec ELSE << >>
             left == IF val.tag = "Array" THEN Array(<< >>) ELSE None
             found == SelectSeq(response,
                          LAMBDA value : value.tag = "Object" /\ key \in DOMAIN value.obj)
             vec == [n \in 1 .. Len(found) |-> found[n].obj[key]]
         IN  Out(SetValue(m, index, left), from_value_Vec(vec))

Vec_key_query_result_removing(m, index, key) ==
    IF index \notin DOMAIN m THEN Out(m, Ok(Vec(<< >>)))
    ELSE IF m[index].result.kind = "Err" THEN TakeError(m, index)
    ELSE LET val == m[index].result.val
             response == IF val.tag = "Array" THEN val.vec ELSE <<val>>
             found == SelectSeq(response,
                          LAMBDA value : value.tag = "Object" /\ key \in DOMAIN value.obj)
             vec == [n \in 1 .. Len(found) |-> found[n].obj[key]]
         IN  Out(Remove(m, index), from_value_Vec(vec))

\* impl QueryResult<Vec<T>> for (usize, &str)
Vec_key_query_result(m, index, key) ==
    IF index \notin DOMAIN m THEN Out(m, Ok(Vec(<< >>)))
    ELSE IF m[index].result.kind = "Err" THEN TakeError(m, index)
    ELSE LET val == m[index].result.val
             response == IF val.tag = "Array" THEN val.vec ELSE <<val>>
             \* mem::take leaves the default behind: an empty Vec, Value::None
             left == IF val.tag = "Array" THEN Array(<< >>) ELSE None
             found == SelectSeq(response,
                          LAMBDA value : value.tag = "Object" /\ key \in DOMAIN value.obj)
             vec == [n \in 1 .. Len(found) |-> found[n].obj[key]]
         IN  Out(SetValue(m, index, left), from_value_Vec(vec))

\* impl QueryResult<_> for &str: the selector (0, key)
Value_str_query_result(m, key) == Value_key_query_result(m, 0, key)
Option_str_query_result(m, key) == Option_key_query_result(m, 0, key)
Vec_str_query_result(m, key) == Vec_key_query_result(m, 0, key)

\* Option<Stats> as returned to the caller
NoStats == [tag |-> "NoStats"]
SomeStats(st) == [tag |-> "Stats", stats |-> st]

stats_first(m, index) == IF 0 \in DOMAIN m THEN SomeStats(m[0].stats) ELSE NoStats

\* fn stats of the usize and (usize, &str) impls: map.get(index).map(|x| x.0)
stats(m, index) == IF index \in DOMAIN m THEN SomeStats(m[index].stats) ELSE NoStats

\* The trait's default fn stats, which the &str impls inherit: map.get(&0)
stats_default(m) == IF 0 \in DOMAIN m THEN SomeStats(m[0].stats) ELSE NoStats

----------------------------------------------------------------------------
(* The caller: it owns the response, and the map of a LossyTake error once *)
(* a call has returned one, and calls query_result or stats on either.     *)

\* The outcomes the statements next to the one under test end in: a failure,
\* or an array a scalar take cannot pick from.
Others ==
    { Err(Failure),
      Ok(Array(<<Number(5), Record>>)) }

\* Responses of n statements: statement `focus` ends in any outcome, the
\* others in one of Others; indices are 0-based and gap-free.
Responses(n) ==
    UNION { { [i \in 0 .. (n - 1) |->
                 [stats |-> StatsOf(i), result |-> IF i = focus THEN o ELSE r[i]]]
              : o \in Outcomes, r \in [0 .. (n - 1) -> Others] }
            : focus \in 0 .. (n - 1) }

\* The map a call on `target` works on
Held(target) == IF target = "map" THEN map ELSE carried[1]

Targets == {"map"} \cup (IF carried = << >> THEN {} ELSE {"carried"})

\* A call on `target` returned `out`: the target holds the map the call left,
\* and a LossyTake error now owns the map that was moved into it.
Return(target, op, index, key, out) ==
    /\ pre' = Held(target)
    /\ post' = out.map
    /\ map' = IF target = "map" THEN out.map ELSE map
    /\ carried' = IF out.lossy THEN <<out.carried>>
                  ELSE IF target = "carried" THEN <<out.map>>
                  ELSE carried
    /\ last' = [op |-> op, index |-> index, key |-> key, target |-> target,
                ret |-> out.ret]
    /\ seen' = IF out.ret = Err(Failure)
               THEN [seen EXCEPT ![index] = IF Len(@) < 2 THEN Append(@, op) ELSE @]
               ELSE seen
    /\ UNCHANGED <<stats0, mrg, geo, qry, upg>>

\* No merge and no geometry statement is under way
Idle == [pc |-> "idle"]

Init ==
    /\ mrg = Idle
    /\ geo = Idle
    /\ qry = Idle
    /\ upg = Idle
    /\ map \in UNION {Responses(n) : n \in 1 .. NumSlots}
    /\ carried = << >>
    /\ last = [op |-> "new", index |-> 0, key |-> NoKey, target |-> "map",
               ret |-> Ok(None)]
    /\ pre = map
    /\ post = map
    /\ stats0 = [i \in DOMAIN map |-> map[i].stats]
    /\ seen = [i \in Indices |-> << >>]

TakeValue ==
    \E target \in Targets, i \in Indices :
        Return(target, "Value", i, NoKey, Value_usize_query_result(Held(target), i))

TakeOption ==
    \E target \in Targets, i \in Indices :
        Return(target, "Option", i, NoKey, Option_usize_query_result(Held(target), i))

TakeVec ==
    \E target \in Targets, i \in Indices :
        Return(target, "Vec", i, NoKey, Vec_usize_query_result(Held(target), i))

TakeValueKey ==
    \E target \in Targets, i \in Indices, key \in Keys :
        Return(target, "Value", i, key, Value_key_query_result(Held(target), i, key))

TakeOptionKey ==
    \E target \in Targets, i \in Indices, key \in Keys :
        Return(target, "Option", i, key, Option_key_query_result(Held(target), i, key))

TakeVecKey ==
    \E target \in Targets, i \in Indices, key \in Keys :
        Return(target, "Vec", i, key, Vec_key_query_result(Held(target), i, key))

TakeValueStr ==
    \E target \in Targets, key \in Keys :
        Return(target, "Value", 0, key, Value_str_query_result(Held(target), key))

TakeOptionStr ==
    \E target \in Targets, key \in Keys :
        Return(target, "Option", 0, key, Option_str_query_result(Held(target), key))

TakeVecStr ==
    \E target \in Targets, key \in Keys :
        Return(target, "Vec", 0, key, Vec_str_query_result(Held(target), key))

Stats ==
    \E target \in Targets, i \in Indices :
        Return(target, "stats", i, NoKey, Out(Held(target), Ok(stats(Held(target), i))))

StatsStr ==
    \E target \in Targets, key \in Keys :
        Return(target, "stats", 0, key, Out(Held(target), Ok(stats_default(Held(target)))))

Next ==
    \/ TakeValue
    \/ TakeOption
    \/ TakeVec
    \/ TakeValueKey
    \/ TakeOptionKey
    \/ TakeVecKey
    \/ TakeValueStr
    \/ TakeOptionStr
    \/ TakeVecStr
    \/ Stats
    \/ StatsStr

Spec == Init /\ [][Next]_vars

----------------------------------------------------------------------------
(* Merge Engine: UPDATE record MERGE patch (lib/tests/merge.rs)            *)

MaxDepth == 2       \* deepest nesting of objects in a target or a patch

\* Objects with an optional field id and an optional field a
ObjectsOver(ids, as) ==
    { Object([k \in D |-> IF k = "id" THEN i ELSE a]) :
          D \in SUBSET {"id", "a"}, i \in ids, a \in as }

RECURSIVE TargetObjects(_)
TargetObjects(d) ==
    IF d = 0 THEN {Object(<< >>)}
    ELSE ObjectsOver({Strand("t:1")},
                     {Number(1), Array(<<Number(1), Number(2)>>)}
                         \cup TargetObjects(d - 1))

\* Patches: a field holds the deletion sentinel, a new value or a nested patch
RECURSIVE PatchObjects(_)
PatchObjects(d) ==
    IF d = 0 THEN {Object(<< >>)}
    ELSE ObjectsOver({None, Strand("t:2")},
                     {None, Number(2), Array(<<Number(3)>>)}
                         \cup PatchObjects(d - 1))

\* The record and the patch of merge_record, and the record it expects
TestRecord ==
    Object([id |-> Strand("person:test"),
            name |-> Object([initials |-> Strand("TMH"), first |-> Strand("Tobie"),
                             last |-> Strand("Morgan Hitchcock")])])
TestPatch ==
    Object([name |-> Object([title |-> Strand("Mr"), initials |-> None,
                             suffix |-> Array(<<Strand("BSc"), Strand("MSc")>>)])])
TestMerged ==
    Object([id |-> Strand("person:test"),
            name |-> Object([title |-> Strand("Mr"), first |-> Strand("Tobie"),
                             last |-> Strand("Morgan Hitchcock"),
                             suffix |-> Array(<<Strand("BSc"), Strand("MSc")>>)])])

\* Patch {a: 1, b: NONE} on target {a: 0, b: 2, c: 3}
FlatTarget == Object([a |-> Number(0), b |-> Number(2), c |-> Number(3)])
FlatPatch == Object([a |-> Number(1), b |-> None])
FlatMerged == Object([a |-> Number(1), c |-> Number(3)])

merge_shallow(target, patch) ==
    LET t == target.obj
        p == patch.obj
        deleted == {k \in DOMAIN p : p[k].tag = "None"}
    IN  Object([k \in (DOMAIN t \cup DOMAIN p) \ deleted |->
                   IF k \in DOMAIN p THEN p[k] ELSE t[k]])

\* merge(target, patch): for every key of the patch, the deletion sentinel
\* removes the key, an Object on an Object is merged into it, anything else
\* overwrites; the other keys of the target stay.
RECURSIVE merge(_, _)
merge(target, patch) ==
    LET t == target.obj
        p == patch.obj
        deleted == {k \in DOMAIN p : p[k].tag = "None"}
    IN  Object([k \in (DOMAIN t \cup DOMAIN p) \ deleted |->
                   IF k \notin DOMAIN p THEN t[k]
                   ELSE IF p[k].tag = "Object" /\ k \in DOMAIN t /\ t[k].tag = "Object"
                        THEN merge(t[k], p[k])
                   ELSE p[k]])

merge_record_plain(record, patch) == merge(record, patch)

\* UPDATE record MERGE patch: the patch is merged into the record, whose
\* identifier stays what it was.
merge_record(record, patch) ==
    LET merged == merge(record, patch).obj IN
    IF "id" \in DOMAIN record.obj
    THEN Object([k \in DOMAIN merged \cup {"id"} |->
                    IF k = "id" THEN record.obj["id"] ELSE merged[k]])
    ELSE Object(merged)

\* Nothing is being extracted
NoResponse ==
    /\ map = EmptyMap /\ carried = << >> /\ pre = EmptyMap /\ post = EmptyMap
    /\ last = [op |-> "new", index |-> 0, key |-> NoKey, target |-> "map",
               ret |-> Ok(None)]
    /\ stats0 = EmptyMap
    /\ seen = [i \in Indices |-> << >>]

MergeInit ==
    /\ NoResponse
    /\ geo = Idle
    /\ qry = Idle
    /\ upg = Idle
    /\ \E pair \in (TargetObjects(MaxDepth) \X PatchObjects(MaxDepth))
                      \cup {<<TestRecord, TestPatch>>, <<FlatTarget, FlatPatch>>} :
           mrg = [pc |-> "start", target |-> pair[1], patch |-> pair[2],
                  once |-> None, twice |-> None]

\* merge(target, patch)
Merge ==
    /\ mrg.pc = "start"
    /\ mrg' = [mrg EXCEPT !.pc = "merged", !.once = merge(mrg.target, mrg.patch)]
    /\ UNCHANGED <<map, carried, last, pre, post, stats0, seen, geo, qry, upg>>

\* The patch is applied once more, to what the first merge gave
MergeAgain ==
    /\ mrg.pc = "merged"
    /\ mrg' = [mrg EXCEPT !.pc = "again", !.twice = merge(mrg.once, mrg.patch)]
    /\ UNCHANGED <<map, carried, last, pre, post, stats0, seen, geo, qry, upg>>

\* UPDATE target MERGE patch
UpdateMerge ==
    /\ mrg.pc = "start"
    /\ mrg' = [mrg EXCEPT !.pc = "updated",
                          !.once = merge_record(mrg.target, mrg.patch)]
    /\ UNCHANGED <<map, carried, last, pre, post, stats0, seen, geo, qry, upg>>

MergeNext ==
    \/ Merge
    \/ MergeAgain
    \/ UpdateMerge

MergeSpec == MergeInit /\ [][MergeNext]_vars

----------------------------------------------------------------------------
(* Properties *)

\* The latest call was a take of `shape`, by index only or by (index, key)
Took(shape) == last.op = shape
ByIndex == last.key = NoKey
ByKey == last.key \in Keys

\* Slot last.index was in the target map before the latest call
Present == last.index \in DOMAIN pre
PresentOk == Present /\ pre[last.index].result.kind = "Ok"
PresentErr == Present /\ pre[last.index].result.kind = "Err"
\* The value slot last.index held before the latest call (when PresentOk)
Stored == pre[last.index].result.val
Ambiguous == PresentOk /\ Stored.tag = "Array" /\ Len(Stored.vec) >= 2

\* The results of every kind of take at index j of map m
TakesAt(m, j) ==
    << Value_usize_query_result(m, j).ret,
       Option_usize_query_result(m, j).ret,
       Vec_usize_query_result(m, j).ret,
       [key \in Keys |-> Value_key_query_result(m, j, key).ret],
       [key \in Keys |-> Option_key_query_result(m, j, key).ret],
       [key \in Keys |-> Vec_key_query_result(m, j, key).ret] >>

\* C1: an Option take (by index or by (index, key)) at a slot holding an array
\* of two or more elements fails with LossyTake; every other slot of the map
\* is in the map the error carries, statistics and outcome unchanged, so any
\* take at it gives there what it would have given on the original; and the
\* map the call was made on holds none of them afterwards.
C1_LossyTakeLosesNoOtherResult ==
    (Took("Option") /\ Ambiguous) =>
        /\ last.ret = Err(LossyTake)
        /\ carried # << >>
        /\ \A j \in DOMAIN pre \ {last.index} :
               /\ j \in DOMAIN carried[1]
               /\ carried[1][j] = pre[j]
               /\ TakesAt(carried[1], j) = TakesAt(pre, j)
               /\ j \notin DOMAIN post

\* C1 witness: a LossyTake at one index of the caller's map left another
\* slot, one that an Option take decodes, in the carried map.
C1_Witness ==
    /\ Took("Option") /\ Ambiguous /\ last.target = "map"
    /\ \E j \in DOMAIN pre \ {last.index} :
           /\ pre[j].result = Ok(Number(5))
           /\ Option_usize_query_result(carried[1], j).ret = Ok(Some(5))

\* C2: the failure a statement produced is returned by at most one call at
\* its index, whatever the selectors and shapes of the calls.
C2_FailureSeenAtMostOnce ==
    \A i \in Indices : Len(seen[i]) <= 1

\* C2 witness: the failure of a slot has been returned, and a later take at
\* the same index returned something else.
C2_Witness ==
    /\ seen[last.index] # << >>
    /\ last.op \in {"Value", "Option", "Vec"}
    /\ last.index \in DOMAIN stats0
    /\ ~Present
    /\ last.ret.kind = "Ok"

\* The results of every kind of take at an index the map has no slot for
TakesAtAbsent ==
    << Ok(None), Ok(NoValue), Ok(Vec(<< >>)),
       [key \in Keys |-> Ok(None)],
       [key \in Keys |-> Ok(NoValue)],
       [key \in Keys |-> Ok(Vec(<< >>))] >>

\* The latest call is a later exact take at index 0 of a one-statement
\* response whose failure an exact take has returned.
SecondExactTake ==
    /\ DOMAIN stats0 = {0}
    /\ seen[0] = <<"Value">>
    /\ Took("Value") /\ last.index = 0
    /\ last.ret # Err(Failure)

\* C3 as stated: the exact take of a failed slot returns the failure and keeps
\* the slot with ConnectionUninitialised in its place, which a second exact
\* take at index 0 then returns.
C3_SecondTakeReturnsPlaceholder ==
    /\ (Took("Value") /\ PresentErr) =>
           /\ last.ret = pre[last.index].result
           /\ last.index \in DOMAIN post
           /\ post[last.index].result = Err(ConnectionUninitialised)
    /\ SecondExactTake => last.ret = Err(ConnectionUninitialised)

\* C3 amended: the exact take of a failed slot returns the failure and removes
\* the slot, so a second exact take at index 0 returns the none value.
C3_SecondTakeReturnsNone ==
    /\ (Took("Value") /\ PresentErr) =>
           /\ last.ret = pre[last.index].result
           /\ post = Remove(pre, last.index)
    /\ SecondExactTake => (last.ret = Ok(None) /\ ~Present /\ post = pre)

\* C3 witness: the second exact take of the failed statement of a
\* one-statement response has returned.
C3_Witness == SecondExactTake /\ ~Present /\ last.ret = Ok(None)

\* C4 as stated: the exact take by index of an ok slot returns the value and
\* leaves the slot, so a second one returns the same value.
C4_ExactTakeKeepsSlot ==
    (Took("Value") /\ ByIndex /\ PresentOk) =>
        /\ last.ret = Ok(Stored)
        /\ post = pre
        /\ Value_usize_query_result(post, last.index).ret = Ok(Stored)

\* C4 amended: the exact take by index of an ok slot returns the value as
\* stored and removes the slot (and nothing else), so every later take at that
\* index finds no slot.
C4_ExactTakeRemovesSlot ==
    (Took("Value") /\ ByIndex /\ PresentOk) =>
        /\ last.ret = Ok(Stored)
        /\ post = Remove(pre, last.index)
        /\ TakesAt(post, last.index) = TakesAtAbsent

\* C4 witness: an exact take by index has returned a stored record.
C4_Witness == Took("Value") /\ ByIndex /\ PresentOk /\ Stored = Record

\* C5 as stated: after an Option take by index at an ok slot, the slot is
\* neither in the map the call was made on nor in the map of a LossyTake error.
C5_SlotInNeitherMap ==
    (Took("Option") /\ ByIndex /\ PresentOk) =>
        /\ last.index \notin DOMAIN post
        /\ (last.ret = Err(LossyTake) => last.index \notin DOMAIN carried[1])

\* C5 amended: after an Option take by index at an ok slot, the slot is not in
\* the map the call was made on; unless the take was ambiguous only that slot
\* was removed, and when it was ambiguous the whole map, the slot included and
\* unchanged, is the one the LossyTake error carries.
C5_SlotLeavesCallersMap ==
    (Took("Option") /\ ByIndex /\ PresentOk) =>
        /\ last.index \notin DOMAIN post
        /\ IF Ambiguous
           THEN last.ret = Err(LossyTake) /\ carried = <<pre>> /\ post = EmptyMap
           ELSE last.ret # Err(LossyTake) /\ post = Remove(pre, last.index)

\* C5 witness: an Option take by index has failed with LossyTake.
C5_Witness ==
    Took("Option") /\ ByIndex /\ Ambiguous /\ last.ret = Err(LossyTake)

\* C6 as stated: stats finds on the caller's map the statistics of every
\* statement of the batch, whatever has been taken, and changes no map.
C6_StatsSurviveTakes ==
    /\ \A i \in DOMAIN stats0 : stats(map, i) = SomeStats(stats0[i])
    /\ Took("stats") => post = pre

\* C6 amended: stats changes no map, and returns the statistics the slot was
\* built with as long as the slot is in the map it is asked about, and none
\* once the slot has left that map.
C6_StatsOfPresentSlots ==
    /\ \A i \in DOMAIN map : map[i].stats = stats0[i]
    /\ \A n \in DOMAIN carried : \A i \in DOMAIN carried[n] :
           carried[n][i].stats = stats0[i]
    /\ (Took("stats") /\ ByIndex) =>
           /\ post = pre
           /\ last.ret = Ok(IF Present THEN SomeStats(stats0[last.index]) ELSE NoStats)

\* C6 witness: stats was asked on the caller's map for a statement whose slot
\* had been taken.
C6_Witness ==
    /\ Took("stats") /\ ByIndex /\ last.target = "map"
    /\ last.index \in DOMAIN stats0 /\ ~Present
    /\ last.ret = Ok(NoStats)

\* The response {0: (stats, Ok([{id: "t:1", v: 5}]))}, and the same once
\* field v has been taken out of its record
OneRecord ==
    [i \in {0} |-> [stats |-> StatsOf(0), result |-> Ok(Array(<<Record>>))]]
OneRecordLessV ==
    [i \in {0} |->
        [stats |-> StatsOf(0),
         result |-> Ok(Array(<<Object([k \in {"id"} |-> FieldOf(k)])>>))]]

TookOptionV == Took("Option") /\ last.index = 0 /\ last.key = "v"

\* C7 as stated: on {0: Ok([{id: "t:1", v: 5}])} the Option take of (0, "v")
\* returns 5 and removes slot 0, so that a second one finds no slot and
\* returns no value.
C7_KeyedTakeConsumesSlot ==
    (TookOptionV /\ pre = OneRecord) =>
        /\ last.ret = Ok(Some(5))
        /\ 0 \notin DOMAIN post
        /\ Option_key_query_result(post, 0, "v").ret = Ok(NoValue)

\* C7 amended: on {0: Ok([{id: "t:1", v: 5}])} the Option take of (0, "v")
\* returns 5 and takes only field v, leaving slot 0 with [{id: "t:1"}]; a
\* second one returns no value because the record has no field v any more,
\* and leaves the slot as it is.
C7_KeyedTakeConsumesField ==
    /\ (TookOptionV /\ pre = OneRecord) =>
           /\ last.ret = Ok(Some(5))
           /\ post = OneRecordLessV
    /\ (TookOptionV /\ pre = OneRecordLessV) =>
           /\ last.ret = Ok(NoValue)
           /\ post = pre

\* C7 witness: the second take of (0, "v") has returned no value on the
\* one-statement response whose record lost field v to the first.
C7_Witness ==
    /\ DOMAIN stats0 = {0}
    /\ TookOptionV /\ pre = OneRecordLessV
    /\ last.ret = Ok(NoValue)

\* The latest call was an Option take by (index, key) that got as far as
\* the match on the resolved value
Matched ==
    /\ Took("Option") /\ ByKey /\ PresentOk
    /\ Stored.tag = "Array" => Len(Stored.vec) = 1

\* C8: a keyed Option take whose resolved value is None or Null returns no
\* value and removes the slot; one whose resolved value is a non-empty Object
\* without the key returns no value and leaves the map as it was.
C8_NullAndMissingFieldGiveNoValue ==
    Matched =>
        LET value == IF Stored.tag = "Array" THEN Stored.vec[1] ELSE Stored IN
        /\ value.tag \in {"None", "Null"} =>
               last.ret = Ok(NoValue) /\ post = Remove(pre, last.index)
        /\ (value.tag = "Object" /\ DOMAIN value.obj # {}
                /\ last.key \notin DOMAIN value.obj) =>
               last.ret = Ok(NoValue) /\ post = pre

\* C8 witness: a keyed Option take has met a non-empty record without the key.
C8_Witness ==
    /\ Matched /\ Stored.tag = "Object"
    /\ DOMAIN Stored.obj # {} /\ last.key \notin DOMAIN Stored.obj
    /\ last.ret = Ok(NoValue)

\* C9: an Option take by index returns no value, the map unchanged, when the
\* slot is absent; no value for an empty array; the decoded element for a
\* one-element array; the decoded value for a value that is no array; and
\* for a longer array the LossyTake error, never an element.
C9_OptionByIndex ==
    (Took("Option") /\ ByIndex) =>
        /\ ~Present => (last.ret = Ok(NoValue) /\ post = pre)
        /\ PresentOk =>
               IF Stored.tag # "Array" THEN last.ret = from_value_Option(Stored)
               ELSE IF Len(Stored.vec) = 0 THEN last.ret = Ok(NoValue)
               ELSE IF Len(Stored.vec) = 1
                    THEN last.ret = from_value_Option(Stored.vec[1])
               ELSE last.ret = Err(LossyTake)

\* C9 witness: an Option take by index has decoded the element of [5].
C9_Witness ==
    /\ Took("Option") /\ ByIndex /\ PresentOk
    /\ Stored = Array(<<Number(5)>>)
    /\ last.ret = Ok(Some(5))

\* C10 as stated: after a keyed Vec take at a present slot the index is no
\* longer in the map.
C10_KeyedVecRemovesSlot ==
    (Took("Vec") /\ ByKey /\ Present) => DOMAIN post = DOMAIN pre \ {last.index}

\* C10 amended: a keyed Vec take removes a failed slot; an ok slot stays in
\* the map with its statistics, holding what the take left of its value: the
\* empty array for an array, the none value otherwise.
C10_KeyedVecEmptiesSlot ==
    (Took("Vec") /\ ByKey /\ Present) =>
        IF PresentErr
        THEN post = Remove(pre, last.index)
        ELSE post = [pre EXCEPT ![last.index].result =
                        Ok(IF Stored.tag = "Array" THEN Array(<< >>) ELSE None)]

\* C10 witness: a keyed Vec take has collected a field from an array of
\* records and left the slot in the map.
C10_Witness ==
    /\ Took("Vec") /\ ByKey /\ PresentOk
    /\ Stored.tag = "Array" /\ last.ret = Ok(Vec(<<5>>))
    /\ last.index \in DOMAIN post

\* C11 as stated: a keyed Vec take at an ok slot whose value is no array
\* returns the empty collection, whatever the value.
C11_NonArrayGivesEmpty ==
    (Took("Vec") /\ ByKey /\ PresentOk /\ Stored.tag # "Array") =>
        last.ret = Ok(Vec(<< >>))

\* C11 amended: a keyed Vec take at an ok slot whose value is no array treats
\* the value as a one-element array: it returns the empty collection unless
\* the value is an Object that has the key, and then the decoding of the
\* one-element list of that field.
C11_NonArrayTakenAsOneElement ==
    (Took("Vec") /\ ByKey /\ PresentOk /\ Stored.tag # "Array") =>
        last.ret = IF Stored.tag = "Object" /\ last.key \in DOMAIN Stored.obj
                   THEN from_value_Vec(<<Stored.obj[last.key]>>)
                   ELSE Ok(Vec(<< >>))

\* C11 witness: a keyed Vec take has collected field v of a single record.
C11_Witness ==
    /\ Took("Vec") /\ ByKey /\ PresentOk
    /\ Stored = Record /\ last.key = "v"
    /\ last.ret = Ok(Vec(<<5>>))

\* C12: a Vec take by index returns the empty collection, the map unchanged,
\* when the slot is absent; at a present slot it removes the slot and returns
\* the failure of a failed slot, the decoding of every element of an array in
\* order, or a decode error when one element does not decode; a value that
\* is no array is taken as the one-element array of it.
C12_VecByIndex ==
    (Took("Vec") /\ ByIndex) =>
        /\ ~Present => (last.ret = Ok(Vec(<< >>)) /\ post = pre)
        /\ Present => post = Remove(pre, last.index)
        /\ PresentErr => last.ret = pre[last.index].result
        /\ PresentOk =>
               LET vec == IF Stored.tag = "Array" THEN Stored.vec ELSE <<Stored>> IN
               /\ IF \A n \in 1 .. Len(vec) : vec[n].tag = "Number"
                  THEN last.ret = Ok(Vec([n \in 1 .. Len(vec) |-> vec[n].n]))
                  ELSE last.ret = Err(FromValue)
               /\ last.ret =
                      Vec_usize_query_result(SetValue(pre, last.index, Array(vec)),
                                             last.index).ret

\* C12 witness: a Vec take by index has decoded [7, 5] in that order.
C12_Witness ==
    /\ Took("Vec") /\ ByIndex /\ PresentOk
    /\ Stored = Array(<<Number(7), Number(5)>>)
    /\ last.ret = Ok(Vec(<<7, 5>>))

\* C13: an exact take by (index, key) at an ok slot returns no error, returns
\* the none value when the value is no Object or has no such key, and leaves
\* the index in the map.
C13_ExactKeyedNeverFails ==
    (Took("Value") /\ ByKey /\ PresentOk) =>
        /\ last.ret.kind = "Ok"
        /\ (Stored.tag # "Object" \/ last.key \notin DOMAIN Stored.obj) =>
               last.ret = Ok(None)
        /\ DOMAIN post = DOMAIN pre
        /\ post[last.index].stats = pre[last.index].stats

\* C13 witness: an exact keyed take has returned the none value for a value
\* that is no Object, and the slot is still in the map.
C13_Witness ==
    /\ Took("Value") /\ ByKey /\ PresentOk
    /\ Stored = Strand("t:1")
    /\ last.ret = Ok(None) /\ last.index \in DOMAIN post

\* C14: a take that does not fail with LossyTake leaves every slot other
\* than the one it was made at in the map, statistics and outcome unchanged.
C14_OtherSlotsUntouched ==
    (last.op \in {"Value", "Option", "Vec"} /\ last.ret # Err(LossyTake)) =>
        \A j \in DOMAIN pre \ {last.index} :
            j \in DOMAIN post /\ post[j] = pre[j]

\* C14 witness: a take has returned the failure of its statement while the
\* map held another slot.
C14_Witness ==
    /\ last.op \in {"Value", "Option", "Vec"} /\ PresentErr
    /\ last.ret = Err(Failure)
    /\ DOMAIN pre \ {last.index} # {}

\* The values the latest typed take selected for its result
Selected ==
    IF ~PresentOk \/ last.op \notin {"Option", "Vec"} THEN << >>
    ELSE IF Took("Vec")
         THEN LET vec == IF Stored.tag = "Array" THEN Stored.vec ELSE <<Stored>>
                  found == SelectSeq(vec, LAMBDA e :
                               e.tag = "Object" /\ last.key \in DOMAIN e.obj)
              IN  IF ByIndex THEN vec
                  ELSE [n \in 1 .. Len(found) |-> found[n].obj[last.key]]
    ELSE IF Stored.tag = "Array" /\ Len(Stored.vec) # 1 THEN << >>
    ELSE LET value == IF Stored.tag = "Array" THEN Stored.vec[1] ELSE Stored IN
         IF ByIndex THEN <<value>>
         ELSE IF value.tag = "Object" /\ last.key \in DOMAIN value.obj
              THEN <<value.obj[last.key]>>
              ELSE << >>

\* One of the selected values is not of the requested type: no integer, nor,
\* for an Option, none or null
Mismatch ==
    \E n \in 1 .. Len(Selected) :
        /\ Selected[n].tag # "Number"
        /\ Took("Option") => Selected[n].tag \notin {"None", "Null"}

\* What the latest take returns when made at index j of a map whose only slot,
\* j, is the slot it was made at
SameTakeAt(j) ==
    LET m == [x \in {j} |-> pre[last.index]] IN
    IF Took("Option")
    THEN IF ByIndex THEN Option_usize_query_result(m, j).ret
         ELSE Option_key_query_result(m, j, last.key).ret
    ELSE IF ByIndex THEN Vec_usize_query_result(m, j).ret
         ELSE Vec_key_query_result(m, j, last.key).ret

\* C15 as stated: a typed take whose selected value is not of the requested
\* type returns an error, and the error tells the index it was made at from
\* every other index.
C15_DecodeErrorNamesIndex ==
    Mismatch =>
        /\ last.ret.kind = "Err"
        /\ \A j \in Indices \ {last.index} : SameTakeAt(j) # last.ret

\* C15 amended: a typed take whose selected value is not of the requested
\* type returns the decode error, never a value; the error is the decoder's
\* own, the same at whatever index the value is taken.
C15_DecodeErrorNeverSwallowed ==
    Mismatch =>
        /\ last.ret = Err(FromValue)
        /\ \A j \in Indices : SameTakeAt(j) = last.ret

\* C15 witness: a keyed Option take has met a field that is no integer.
C15_Witness ==
    /\ Took("Option") /\ ByKey /\ Mismatch
    /\ last.key = "id" /\ last.ret = Err(FromValue)


----------------------------------------------------------------------------
(* Value Model: geometry-shaped objects, predicates and the geometry cast  *)
(* (crates/sdk/tests/geometry.rs, objects_coerce_into_geometries)          *)

MaxCalls == 2       \* calls with a geometry parameter made in one session

Bool(b) == [tag |-> "Bool", b |-> b]
Geometry(kind, coordinates) ==
    [tag |-> "Geometry", kind |-> kind, coordinates |-> coordinates]
TypeCast == "TypeCast"

\* The geometry kinds of the tests; a Point holds one coordinate pair, a
\* MultiPoint a sequence of points, a Polygon a sequence of rings, each a
\* sequence of points, a MultiPolygon a sequence of polygons.
Kinds == {"Point", "MultiPoint", "Polygon", "MultiPolygon"}

\* [x, y] as written in a query; ordinates are in tenths (788 is 78.8)
PointArray(x, y) == Array(<<Number(x), Number(y)>>)

PolygonLiteral ==
    Object([type |-> Strand("Polygon"),
            coordinates |-> Array(<<Array(<<PointArray(788, 788)>>)>>)])
PointLiteral ==
    Object([type |-> Strand("Point"), coordinates |-> PointArray(788, 515)])
\* Object literals that are not geometry-shaped: coordinates of another kind,
\* no coordinates, no type
Misshapen ==
    { Object([type |-> Strand("Polygon"), coordinates |-> PointArray(788, 788)]),
      Object([type |-> Strand("Point")]),
      Object([coordinates |-> PointArray(788, 788)]) }
Literals == {PolygonLiteral, PointLiteral} \cup Misshapen

IsPointArray(v) ==
    /\ v.tag = "Array"
    /\ Len(v.vec) = 2
    /\ \A i \in 1 .. 2 : v.vec[i].tag = "Number"
IsRingArray(v) ==
    /\ v.tag = "Array"
    /\ \A i \in DOMAIN v.vec : IsPointArray(v.vec[i])
IsPolygonArray(v) ==
    /\ v.tag = "Array"
    /\ \A i \in DOMAIN v.vec : IsRingArray(v.vec[i])
IsMultiPolygonArray(v) ==
    /\ v.tag = "Array"
    /\ \A i \in DOMAIN v.vec : IsPolygonArray(v.vec[i])

\* An Object with a recognized type and coordinates matching that kind
IsGeometryShaped(v) ==
    /\ v.tag = "Object"
    /\ {"type", "coordinates"} \subseteq DOMAIN v.obj
    /\ v.obj["type"].tag = "Strand"
    /\ v.obj["type"].s \in Kinds
    /\ CASE v.obj["type"].s = "Point" -> IsPointArray(v.obj["coordinates"])
         [] v.obj["type"].s = "MultiPoint" -> IsRingArray(v.obj["coordinates"])
         [] v.obj["type"].s = "Polygon" -> IsPolygonArray(v.obj["coordinates"])
         [] OTHER -> IsMultiPolygonArray(v.obj["coordinates"])

point_of(v) == <<v.vec[1].n, v.vec[2].n>>

points_of_closed(v) ==
    LET given == [j \in DOMAIN v.vec |-> point_of(v.vec[j])] IN
    IF given # << >> /\ given[Len(given)] # given[1]
    THEN Append(given, given[1])
    ELSE given

\* The points of [[x, y], ...], as given
points_of(v) == [j \in DOMAIN v.vec |-> point_of(v.vec[j])]
\* The rings of [[[x, y], ...], ...], as given
polygon_of(v) == [i \in DOMAIN v.vec |-> points_of(v.vec[i])]

\* The geometry a geometry-shaped Object describes
to_geometry(v) ==
    LET c == v.obj["coordinates"] IN
    CASE v.obj["type"].s = "Point" -> Geometry("Point", point_of(c))
      [] v.obj["type"].s = "MultiPoint" -> Geometry("MultiPoint", points_of(c))
      [] v.obj["type"].s = "Polygon" -> Geometry("Polygon", polygon_of(c))
      [] OTHER -> Geometry("MultiPolygon",
                           [i \in DOMAIN c.vec |-> polygon_of(c.vec[i])])

\* $o.type and $o.coordinates of a geometry
geometry_type(g) == Strand(g.kind)
points_array(points) ==
    Array([j \in DOMAIN points |-> PointArray(points[j][1], points[j][2])])
polygon_array(rings) ==
    Array([i \in DOMAIN rings |-> points_array(rings[i])])
geometry_coordinates(g) ==
    CASE g.kind = "Point" -> PointArray(g.coordinates[1], g.coordinates[2])
      [] g.kind = "MultiPoint" -> points_array(g.coordinates)
      [] g.kind = "Polygon" -> polygon_array(g.coordinates)
      [] OTHER -> Array([i \in DOMAIN g.coordinates |->
                            polygon_array(g.coordinates[i])])

parse_literal_untagged(literal) == literal

\* An object literal of a query: a geometry-shaped one is a geometry
parse_literal(literal) ==
    IF IsGeometryShaped(literal) THEN to_geometry(literal) ELSE literal

cast_geometry_untagged(v) ==
    IF v.tag = "Geometry" \/ IsGeometryShaped(v) THEN Ok(v) ELSE Err(TypeCast)

\* <geometry>value, and the conversion of an argument to a geometry parameter
cast_geometry(v) ==
    IF v.tag = "Geometry" THEN Ok(v)
    ELSE IF IsGeometryShaped(v) THEN Ok(to_geometry(v))
    ELSE Err(TypeCast)

is_geometry(v) == Bool(v.tag = "Geometry")
is_object(v) == Bool(v.tag = "Object")

\* |$o: geometry| { type: $o.type, coordinates: $o.coordinates }
closure(v) ==
    LET o == cast_geometry(v) IN
    IF o.kind = "Err" THEN o
    ELSE Ok(Object([type |-> geometry_type(o.val),
                    coordinates |-> geometry_coordinates(o.val)]))

\* geo::is::valid(value)
geo_is_valid(v) ==
    LET g == cast_geometry(v) IN
    IF g.kind = "Err" THEN g ELSE Ok(Bool(TRUE))

bound_written_back(params, name, v) ==
    LET g == cast_geometry(v) IN
    IF g.kind = "Err" THEN params ELSE [params EXCEPT ![name] = g.val]

\* The parameters after a call was given $name: the callee converts its own
\* copy of the argument, the binding is not written
bound(params, name, v) == params

Names == {"polygon", "chained"}
Unbound == [how |-> "none", literal |-> None]

Statement(op, name, ret) == [op |-> op, name |-> name, ret |-> ret]

GeoInit ==
    /\ NoResponse
    /\ mrg = Idle
    /\ qry = Idle
    /\ upg = Idle
    /\ geo = [pc |-> "session",
              params |-> [n \in Names |-> None],
              origin |-> [n \in Names |-> Unbound],
              last |-> Statement("new", "-", Ok(None)),
              calls |-> 0]

\* LET $name = { ... };
LetLiteral ==
    \E name \in Names, literal \in Literals :
        /\ geo.pc = "session"
        /\ geo' = [geo EXCEPT
                       !.params[name] = parse_literal(literal),
                       !.origin[name] = [how |-> "literal", literal |-> literal],
                       !.last = Statement("let", name, Ok(None))]
        /\ UNCHANGED <<map, carried, last, pre, post, stats0, seen, mrg, qry, upg>>

\* LET $name = { ... }.chain(|$o: geometry| { ... });
LetChained ==
    \E name \in Names, literal \in Literals :
        LET made == closure(parse_literal(literal)) IN
        /\ geo.pc = "session"
        /\ geo' = IF made.kind = "Err"
                  THEN [geo EXCEPT !.last = Statement("let_chained", name, made)]
                  ELSE [geo EXCEPT
                           !.params[name] = made.val,
                           !.origin[name] = [how |-> "chained", literal |-> literal],
                           !.last = Statement("let_chained", name, Ok(None))]
        /\ UNCHANGED <<map, carried, last, pre, post, stats0, seen, mrg, qry, upg>>

\* $name.is_geometry();
IsGeometry ==
    \E name \in Names :
        /\ geo.pc = "session"
        /\ geo' = [geo EXCEPT !.last = Statement("is_geometry", name,
                                                 Ok(is_geometry(geo.params[name])))]
        /\ UNCHANGED <<map, carried, last, pre, post, stats0, seen, mrg, qry, upg>>

\* $name.is_object();
IsObject ==
    \E name \in Names :
        /\ geo.pc = "session"
        /\ geo' = [geo EXCEPT !.last = Statement("is_object", name,
                                                 Ok(is_object(geo.params[name])))]
        /\ UNCHANGED <<map, carried, last, pre, post, stats0, seen, mrg, qry, upg>>

\* <geometry>$name;
Cast ==
    \E name \in Names :
        /\ geo.pc = "session"
        /\ geo' = [geo EXCEPT !.last = Statement("cast", name,
                                                 cast_geometry(geo.params[name]))]
        /\ UNCHANGED <<map, carried, last, pre, post, stats0, seen, mrg, qry, upg>>

\* RETURN geo::is::valid($name);
IsValid ==
    \E name \in Names :
        /\ geo.pc = "session"
        /\ geo.calls < MaxCalls
        /\ geo' = [geo EXCEPT
                       !.params = bound(geo.params, name, geo.params[name]),
                       !.last = Statement("valid", name, geo_is_valid(geo.params[name])),
                       !.calls = @ + 1]
        /\ UNCHANGED <<map, carried, last, pre, post, stats0, seen, mrg, qry, upg>>

\* $name.chain(|$o: geometry| { ... });
Chain ==
    \E name \in Names :
        /\ geo.pc = "session"
        /\ geo.calls < MaxCalls
        /\ geo' = [geo EXCEPT
                       !.params = bound(geo.params, name, geo.params[name]),
                       !.last = Statement("chain", name, closure(geo.params[name])),
                       !.calls = @ + 1]
        /\ UNCHANGED <<map, carried, last, pre, post, stats0, seen, mrg, qry, upg>>

GeoNext ==
    \/ LetLiteral
    \/ LetChained
    \/ IsGeometry
    \/ IsObject
    \/ Cast
    \/ IsValid
    \/ Chain

GeoSpec == GeoInit /\ [][GeoNext]_vars

----------------------------------------------------------------------------
(* Value Model: a geometry stored, selected, serialized and reparsed       *)
(* (crates/sdk/tests/geometry.rs, geometry_polygon, geometry_multipoint,   *)
(* geometry_multipolygon)                                                  *)

MaxPoints == 3      \* most points written in one ring or MultiPoint
MaxRings == 2       \* most rings of a Polygon, most polygons of a MultiPolygon

\* The non-empty sequences over S of at most n elements
SeqsOf(S, n) == UNION { [1 .. k -> S] : k \in 1 .. n }

\* Two coordinate pairs of geometry_multipolygon, in tenths
PointArrays == {PointArray(100, 112), PointArray(105, 119)}
\* Every way to write a ring: closed or not, with or without duplicates
RingArrays == { Array(points) : points \in SeqsOf(PointArrays, MaxPoints) }
\* The rings written as holes, and as the polygons of a MultiPolygon
ShortRingArrays == { Array(points) : points \in SeqsOf(PointArrays, MaxPoints - 1) }
\* An exterior ring followed by holes
PolygonArrays ==
    { Array(<<exterior>> \o holes) :
          exterior \in RingArrays,
          holes \in {<< >>} \cup SeqsOf(ShortRingArrays, MaxRings - 1) }
MultiPolygonArrays ==
    { Array(polygons) :
          polygons \in SeqsOf({ Array(<<ring>>) : ring \in ShortRingArrays },
                              MaxRings) }

GeometryLiteral(kind, coordinates) ==
    Object([type |-> Strand(kind), coordinates |-> coordinates])

GeometryLiterals ==
    { GeometryLiteral("Point", c) : c \in PointArrays }
        \cup { GeometryLiteral("MultiPoint", c) : c \in RingArrays }
        \cup { GeometryLiteral("Polygon", c) : c \in PolygonArrays }
        \cup { GeometryLiteral("MultiPolygon", c) : c \in MultiPolygonArrays }

\* The {type, coordinates} form of a geometry
serialize(g) == GeometryLiteral(g.kind, geometry_coordinates(g))

RoundTripInit ==
    /\ NoResponse
    /\ mrg = Idle
    /\ qry = Idle
    /\ upg = Idle
    /\ \E literal \in GeometryLiterals :
           geo = [pc |-> "written", literal |-> literal, stored |-> None,
                  selected |-> None, serialized |-> None, reparsed |-> None]

\* UPSERT city:london SET area = { type: ..., coordinates: ... };
Upsert ==
    /\ geo.pc = "written"
    /\ geo' = [geo EXCEPT !.pc = "stored", !.stored = parse_literal(geo.literal)]
    /\ UNCHANGED <<map, carried, last, pre, post, stats0, seen, mrg, qry, upg>>

\* SELECT * FROM city:london;
Select ==
    /\ geo.pc = "stored"
    /\ geo' = [geo EXCEPT !.pc = "selected", !.selected = geo.stored]
    /\ UNCHANGED <<map, carried, last, pre, post, stats0, seen, mrg, qry, upg>>

\* The selected geometry is written out as {type, coordinates}
Serialize ==
    /\ geo.pc = "selected"
    /\ geo' = [geo EXCEPT !.pc = "serialized",
                          !.serialized = serialize(geo.selected)]
    /\ UNCHANGED <<map, carried, last, pre, post, stats0, seen, mrg, qry, upg>>

\* Value::parse of the serialized form
Reparse ==
    /\ geo.pc = "serialized"
    /\ geo' = [geo EXCEPT !.pc = "reparsed",
                          !.reparsed = parse_literal(geo.serialized)]
    /\ UNCHANGED <<map, carried, last, pre, post, stats0, seen, mrg, qry, upg>>

RoundTripNext ==
    \/ Upsert
    \/ Select
    \/ Serialize
    \/ Reparse

RoundTripSpec == RoundTripInit /\ [][RoundTripNext]_vars

----------------------------------------------------------------------------
(* Query construction: IntoQuery (lib/src/api/opt/query.rs)                *)

MaxStatements == 2  \* most statements of a submitted sequence or text

\* Statement::Kind(body)
Stmt(kind, body) == [kind |-> kind, body |-> body]
\* Query(Statements(statements))
Statements(statements) == [statements |-> statements]
Query(statements) == [query |-> statements]

\* A statement struct; its fields tell two structs of one type apart
Struct(fields) == [fields |-> fields]

\* The variant each impl for a statement struct wraps self in
Variant ==
    "UseStatement" :> "Use" @@
    "SetStatement" :> "Set" @@
    "InfoStatement" :> "Info" @@
    "LiveStatement" :> "Live" @@
    "KillStatement" :> "Kill" @@
    "BeginStatement" :> "Begin" @@
    "CancelStatement" :> "Cancel" @@
    "CommitStatement" :> "Commit" @@
    "OutputStatement" :> "Output" @@
    "IfelseStatement" :> "Ifelse" @@
    "SelectStatement" :> "Select" @@
    "CreateStatement" :> "Create" @@
    "UpdateStatement" :> "Update" @@
    "RelateStatement" :> "Relate" @@
    "DeleteStatement" :> "Delete" @@
    "InsertStatement" :> "Insert" @@
    "DefineStatement" :> "Define" @@
    "RemoveStatement" :> "Remove" @@
    "OptionStatement" :> "Option"

\* The statement kinds: those with a struct impl, and one without
StatementKinds == { Variant[type] : type \in DOMAIN Variant } \cup {"Value"}

\* The sequences of statements that are submitted
Submissions ==
    {<< >>} \cup SeqsOf({Stmt("Select", Struct(1)), Stmt("Select", Struct(2)),
                         Stmt("Begin", Struct(1)), Stmt("Value", Struct(1))},
                        MaxStatements)

\* Raw text, statement by statement; "SELEC" is not a statement
Grammar ==
    "SELECT 1" :> Stmt("Select", Struct(1)) @@ "BEGIN" :> Stmt("Begin", Struct(1))
Texts == {<< >>} \cup SeqsOf(DOMAIN Grammar \cup {"SELEC"}, MaxStatements)

\* syn::parse(text)
parse(text) ==
    LET bad == {i \in DOMAIN text : text[i] \notin DOMAIN Grammar} IN
    IF bad # {}
    THEN Err([parse |-> CHOOSE i \in bad : \A j \in bad : i <= j])
    ELSE Ok(Query(Statements([i \in DOMAIN text |-> Grammar[text[i]]])))

\* The conversion of the parser's error that ? applies
Error_from(e) == [api |-> e]

Query_into_query(self) == Ok(self.query.statements)
Statements_into_query(self) == Ok(self.statements)
Vec_into_query(self) == Ok(self)
Statement_into_query(self) == Ok(<<self>>)
\* impl IntoQuery for UseStatement, ..., OptionStatement
struct_into_query(type, self) == Ok(<<Stmt(Variant[type], self)>>)

str_into_query_lenient(self) ==
    LET parsed == parse(self) IN
    IF parsed.kind = "Err" THEN Ok(<< >>) ELSE Query_into_query(parsed.val)

str_into_query(self) ==
    LET parsed == parse(self) IN
    IF parsed.kind = "Err" THEN Err(Error_from(parsed.err))
    ELSE Query_into_query(parsed.val)
String_ref_into_query(self) ==
    LET parsed == parse(self) IN
    IF parsed.kind = "Err" THEN Err(Error_from(parsed.err))
    ELSE Query_into_query(parsed.val)
String_into_query(self) ==
    LET parsed == parse(self) IN
    IF parsed.kind = "Err" THEN Err(Error_from(parsed.err))
    ELSE Query_into_query(parsed.val)

Input(type, value) == [type |-> type, value |-> value]

Inputs ==
    { Input("Query", Query(Statements(v))) : v \in Submissions }
        \cup { Input("Statements", Statements(v)) : v \in Submissions }
        \cup { Input("Vec", [vec |-> v]) : v \in Submissions }
        \cup { Input("Statement", Stmt(k, Struct(b))) : k \in StatementKinds,
                                                        b \in {1, 2} }
        \cup { Input(type, Struct(b)) : type \in DOMAIN Variant, b \in {1, 2} }
        \cup { Input(type, [text |-> text]) : type \in {"&str", "&String", "String"},
                                              text \in Texts }

QueryInit ==
    /\ NoResponse
    /\ mrg = Idle
    /\ geo = Idle
    /\ upg = Idle
    /\ \E input \in Inputs : qry = [pc |-> "given", input |-> input, ret |-> Ok(<< >>)]

Returned(ret) ==
    /\ qry' = [qry EXCEPT !.pc = "returned", !.ret = ret]
    /\ UNCHANGED <<map, carried, last, pre, post, stats0, seen, mrg, geo, upg>>

IntoQueryQuery ==
    /\ qry.pc = "given" /\ qry.input.type = "Query"
    /\ Returned(Query_into_query(qry.input.value))
IntoQueryStatements ==
    /\ qry.pc = "given" /\ qry.input.type = "Statements"
    /\ Returned(Statements_into_query(qry.input.value))
IntoQueryVec ==
    /\ qry.pc = "given" /\ qry.input.type = "Vec"
    /\ Returned(Vec_into_query(qry.input.value.vec))
IntoQueryStatement ==
    /\ qry.pc = "given" /\ qry.input.type = "Statement"
    /\ Returned(Statement_into_query(qry.input.value))
IntoQueryStruct ==
    /\ qry.pc = "given" /\ qry.input.type \in DOMAIN Variant
    /\ Returned(struct_into_query(qry.input.type, qry.input.value))
IntoQueryStr ==
    /\ qry.pc = "given" /\ qry.input.type = "&str"
    /\ Returned(str_into_query(qry.input.value.text))
IntoQueryStringRef ==
    /\ qry.pc = "given" /\ qry.input.type = "&String"
    /\ Returned(String_ref_into_query(qry.input.value.text))
IntoQueryString ==
    /\ qry.pc = "given" /\ qry.input.type = "String"
    /\ Returned(String_into_query(qry.input.value.text))

QueryNext ==
    \/ IntoQueryQuery
    \/ IntoQueryStatements
    \/ IntoQueryVec
    \/ IntoQueryStatement
    \/ IntoQueryStruct
    \/ IntoQueryStr
    \/ IntoQueryStringRef
    \/ IntoQueryString

QuerySpec == QueryInit /\ [][QueryNext]_vars

----------------------------------------------------------------------------
(* The upgrade command (src/cli/upgrade.rs)                                *)

\* The files of a run are what is at the path of the current executable,
\* what is at that path with the extension old.exe, what the temporary
\* directory holds, and how many times replace_exe was entered.
\* The result of a step: the files it left and whether it succeeded
Step(files, ok) == [files |-> files, ok |-> ok]

download_ext(os) == IF os = "windows" THEN "exe" ELSE "tgz"

\* replace_exe(from, to), given which of its file operations succeed: moving
\* the executable out of the way (rename on windows, remove_file elsewhere),
\* rename(from, to), and the copy(from, to) it falls back to
replace_exe(files, os, moved, renamed, copied) ==
    LET entered == [files EXCEPT !.replaced = @ + 1]
        away == IF os = "windows"
                THEN [entered EXCEPT !.exe = "absent", !.backup = files.exe]
                ELSE [entered EXCEPT !.exe = "absent"]
    IN  IF ~moved THEN Step(entered, FALSE)
        ELSE IF renamed THEN Step([away EXCEPT !.exe = "new", !.tmp = "none"], TRUE)
        ELSE IF copied THEN Step([away EXCEPT !.exe = "new"], TRUE)
        ELSE Step(away, FALSE)

install_always(files, dry_run, os, moved, renamed, copied) ==
    replace_exe(files, os, moved, renamed, copied)

\* The end of init: the executable is replaced unless this is a dry run
install(files, dry_run, os, moved, renamed, copied) ==
    IF dry_run THEN Step(files, TRUE)
    ELSE replace_exe(files, os, moved, renamed, copied)

UpgradeInit ==
    /\ NoResponse
    /\ mrg = Idle
    /\ geo = Idle
    /\ qry = Idle
    /\ \E dry_run \in BOOLEAN,
          arch \in {"aarch64", "x86_64", "riscv64"},
          os \in {"linux", "macos", "windows", "freebsd"} :
           upg = [pc |-> "init", dry_run |-> dry_run, arch |-> arch, os |-> os,
                  files |-> [exe |-> "old", backup |-> "none", tmp |-> "none",
                             replaced |-> 0],
                  from |-> "init", ret |-> "running"]

Goes(pc, files) ==
    /\ upg' = [upg EXCEPT !.pc = pc, !.files = files]
    /\ UNCHANGED <<map, carried, last, pre, post, stats0, seen, mrg, geo, qry>>

\* init returns from the step it is at; the temporary directory, if one was
\* made, is dropped with what is still in it
Ends(ret, files) ==
    /\ upg' = [upg EXCEPT !.pc = "returned", !.from = upg.pc, !.ret = ret,
                          !.files = [files EXCEPT !.tmp = "none"]]
    /\ UNCHANGED <<map, carried, last, pre, post, stats0, seen, mrg, geo, qry>>

\* current_exe, metadata, and the two permission checks (the second on unix)
CheckPermissions ==
    \E found \in BOOLEAN, readonly \in BOOLEAN, root_owned \in BOOLEAN :
        /\ upg.pc = "init"
        /\ IF ~found \/ readonly \/ (upg.os # "windows" /\ root_owned)
           THEN Ends("Err", upg.files)
           ELSE Goes("permitted", upg.files)

\* args.version().await? and the comparison with the installed version
CompareVersions ==
    \E version \in {"Err", "installed", "other"} :
        /\ upg.pc = "permitted"
        /\ CASE version = "Err" -> Ends("Err", upg.files)
             [] version = "installed" -> Ends("Ok", upg.files)
             [] OTHER -> Goes("compared", upg.files)

\* The download names for arch() and os()
Platform ==
    /\ upg.pc = "compared"
    /\ IF upg.arch \notin {"aarch64", "x86_64"}
          \/ upg.os \notin {"linux", "macos", "windows"}
       THEN Ends("Err", upg.files)
       ELSE Goes("named", upg.files)

\* reqwest::get(&url).await?, the status check and response.bytes().await?
Download ==
    \E received \in BOOLEAN :
        /\ upg.pc = "named"
        /\ IF received THEN Goes("downloaded", upg.files)
           ELSE Ends("Err", upg.files)

\* tempdir()?, fs::write(&tmp_path, ..)?, fs::set_permissions(&tmp_path, ..)?
WriteTemp ==
    \E made \in BOOLEAN, written \in BOOLEAN, permitted \in BOOLEAN :
        /\ upg.pc = "downloaded"
        /\ IF ~made THEN Ends("Err", upg.files)
           ELSE IF ~written \/ ~permitted THEN Ends("Err", upg.files)
           ELSE Goes("written", [upg.files EXCEPT !.tmp = "download"])

\* tar -zxf tmp_path -C tmp_dir, for a tgz
Unarchive ==
    \E extracted \in BOOLEAN :
        /\ upg.pc = "written"
        /\ IF download_ext(upg.os) # "tgz" THEN Goes("unarchived", upg.files)
           ELSE IF extracted
                THEN Goes("unarchived", [upg.files EXCEPT !.tmp = "surreal"])
           ELSE Ends("Err", upg.files)

\* if args.dry_run { .. } else { replace_exe(&tmp_path, &exe)?; .. } Ok(())
Install ==
    \E moved \in BOOLEAN, renamed \in BOOLEAN, copied \in BOOLEAN :
        LET step == install(upg.files, upg.dry_run, upg.os, moved, renamed, copied) IN
        /\ upg.pc = "unarchived"
        /\ Ends(IF step.ok THEN "Ok" ELSE "Err", step.files)

UpgradeNext ==
    \/ CheckPermissions
    \/ CompareVersions
    \/ Platform
    \/ Download
    \/ WriteTemp
    \/ Unarchive
    \/ Install

UpgradeSpec == UpgradeInit /\ [][UpgradeNext]_vars

----------------------------------------------------------------------------
(* Merge Engine properties, checked under MergeSpec                        *)

Merged == mrg.pc \in {"merged", "again"}
Updated == mrg.pc = "updated"
MergedTwice == mrg.pc = "again"

KeyRule(t, p, r, k) ==
    IF p[k].tag = "None" THEN k \notin DOMAIN r
    ELSE /\ k \in DOMAIN r
         /\ IF p[k].tag = "Object" /\ k \in DOMAIN t /\ t[k].tag = "Object"
            THEN r[k] = merge(t[k], p[k])
            ELSE r[k] = p[k]

\* C17: merge(target, patch) touches the keys of the patch and nothing
\* else: a NONE patch value removes the key, an Object on an Object is
\* merged recursively, anything else (an Array included) replaces the field
\* wholesale, and a key only the target has keeps its value; so
\* {a: 1, b: NONE} on {a: 0, b: 2, c: 3} gives {a: 1, c: 3} and the nested
\* patch of merge_record keeps name.first and name.last, drops name.initials
\* and adds title and suffix.
C17_MergeRules ==
    Merged =>
        LET t == mrg.target.obj
            p == mrg.patch.obj
            r == mrg.once.obj
        IN  /\ DOMAIN r \subseteq DOMAIN t \cup DOMAIN p
            /\ \A k \in DOMAIN p : KeyRule(t, p, r, k)
            /\ \A k \in DOMAIN t \ DOMAIN p : k \in DOMAIN r /\ r[k] = t[k]
            /\ (mrg.target = FlatTarget /\ mrg.patch = FlatPatch
                    => mrg.once = FlatMerged)
            /\ (mrg.target = TestRecord /\ mrg.patch = TestPatch
                    => mrg.once = TestMerged)

\* The nested patch of merge_record has been merged into its record
C17_Witness ==
    /\ mrg.pc = "merged"
    /\ mrg.target = TestRecord
    /\ mrg.patch = TestPatch
    /\ mrg.once = TestMerged

----------------------------------------------------------------------------
(* Value Model properties, checked under GeoSpec                           *)

\* $name was bound by LET to a geometry-shaped object literal
FromShapedLiteral(name) ==
    /\ geo.origin[name].how = "literal"
    /\ IsGeometryShaped(geo.origin[name].literal)

\* $name was bound by LET to the object the closure built
FromClosure(name) == geo.origin[name].how = "chained"

Asked(op) == geo.pc = "session" /\ geo.last.op = op

\* C19: a geometry-shaped Object is never tagged Geometry by shape alone: a
\* parameter bound to an Object literal with a recognized type and matching
\* coordinates reports is_geometry() = false and is_object() = true in
\* every state (no statement casts the parameter itself).
C19_ShapedLiteralIsObject ==
    geo.pc = "session" =>
        \A name \in Names :
            FromShapedLiteral(name) =>
                /\ is_geometry(geo.params[name]) = Bool(FALSE)
                /\ is_object(geo.params[name]) = Bool(TRUE)

\* C19, as the session behaves: a parameter bound to a geometry-shaped
\* Object literal is a geometry from its LET on (is_geometry() = true,
\* is_object() = false, without any cast); a parameter bound to an Object of
\* the same shape built by a closure is an Object, and reports
\* is_object() = true and is_geometry() = false in every state, whatever
\* casts and calls it is given to; the predicates report the tag.
C19_OnlyComputedObjectsStayObjects ==
    geo.pc = "session" =>
        /\ \A name \in Names :
               /\ FromShapedLiteral(name) =>
                      /\ is_geometry(geo.params[name]) = Bool(TRUE)
                      /\ is_object(geo.params[name]) = Bool(FALSE)
               /\ FromClosure(name) =>
                      /\ IsGeometryShaped(geo.params[name])
                      /\ is_geometry(geo.params[name]) = Bool(FALSE)
                      /\ is_object(geo.params[name]) = Bool(TRUE)
        /\ Asked("is_geometry") =>
               geo.last.ret = Ok(Bool(geo.params[geo.last.name].tag = "Geometry"))
        /\ Asked("is_object") =>
               geo.last.ret = Ok(Bool(geo.params[geo.last.name].tag = "Object"))

\* $polygon, bound to the literal, answered is_geometry() with true while
\* $chained, bound to the closure's object, is an Object
C19_Witness ==
    /\ Asked("is_geometry")
    /\ geo.last.name = "polygon"
    /\ geo.origin["polygon"] = [how |-> "literal", literal |-> PolygonLiteral]
    /\ geo.last.ret = Ok(Bool(TRUE))
    /\ FromClosure("chained")
    /\ geo.params["chained"] = PolygonLiteral

\* The statement before this state gave $name to a geometry parameter
Called == Asked("valid") \/ Asked("chain")

\* C20: giving a structurally valid Object to an operation with a geometry
\* parameter (geo::is::valid, a closure typed geometry) succeeds with the
\* result the cast value gives, and after the call, and after any number of
\* such calls, the parameter is the Object it was bound to: is_object() is
\* true, is_geometry() is false and the content is unchanged.
C20_CallLeavesSourceObject ==
    geo.pc = "session" =>
        /\ \A name \in Names :
               FromClosure(name) =>
                   /\ geo.params[name] =
                          closure(parse_literal(geo.origin[name].literal)).val
                   /\ is_object(geo.params[name]) = Bool(TRUE)
                   /\ is_geometry(geo.params[name]) = Bool(FALSE)
        /\ Called /\ FromClosure(geo.last.name) =>
               LET cast == cast_geometry(geo.params[geo.last.name]) IN
               /\ cast.kind = "Ok"
               /\ geo.last.ret.kind = "Ok"
               /\ Asked("valid") => geo.last.ret = geo_is_valid(cast.val)
               /\ Asked("chain") => geo.last.ret = closure(cast.val)

\* geo::is::valid($chained) answered true as the last of several calls, and
\* $chained is still the Object the closure built
C20_Witness ==
    /\ Asked("valid")
    /\ geo.last.name = "chained"
    /\ geo.last.ret = Ok(Bool(TRUE))
    /\ geo.calls = MaxCalls
    /\ geo.origin["chained"] = [how |-> "chained", literal |-> PolygonLiteral]
    /\ geo.params["chained"].tag = "Object"

\* C21: <geometry>value succeeds exactly for a Geometry, which it returns
\* unchanged (casting the result again gives the result again), and for a
\* structurally valid Object, which it converts to the geometry of the same
\* type and coordinates (is_geometry() = true, is_object() = false); for any
\* other value, and for an Object lacking type or coordinates or whose
\* coordinates do not match its type, it fails with a type-cast error and
\* gives no value.
C21_CastRules ==
    Asked("cast") =>
        LET v == geo.params[geo.last.name]
            r == geo.last.ret
        IN  /\ v.tag = "Geometry" => r = Ok(v)
            /\ v.tag = "Object" /\ IsGeometryShaped(v) =>
                   /\ r.kind = "Ok"
                   /\ is_geometry(r.val) = Bool(TRUE)
                   /\ is_object(r.val) = Bool(FALSE)
                   /\ geometry_type(r.val) = v.obj["type"]
                   /\ geometry_coordinates(r.val) = v.obj["coordinates"]
                   /\ r.val = parse_literal(geo.origin[geo.last.name].literal)
            /\ v.tag # "Geometry" /\ ~IsGeometryShaped(v) => r = Err(TypeCast)
            /\ r.kind = "Ok" => cast_geometry(r.val) = r

\* <geometry>$chained gave the geometry the polygon literal parses to
C21_Witness ==
    /\ Asked("cast")
    /\ geo.last.name = "chained"
    /\ geo.params["chained"] = PolygonLiteral
    /\ geo.last.ret = Ok(Geometry("Polygon", << << <<788, 788>> >> >>))

\* <geometry> was refused for an Object whose coordinates are of another kind
C21_Refused ==
    /\ Asked("cast")
    /\ geo.params[geo.last.name] \in Misshapen
    /\ geo.last.ret = Err(TypeCast)

----------------------------------------------------------------------------
(* Round trip properties, checked under RoundTripSpec                      *)

\* The points of a stored ring are the points written, one for one
AsGiven(points, written) ==
    /\ Len(points) = Len(written.vec)
    /\ \A j \in DOMAIN points :
           PointArray(points[j][1], points[j][2]) = written.vec[j]

\* The rings of a stored polygon are the rings written, one for one
RingsAsGiven(rings, written) ==
    /\ Len(rings) = Len(written.vec)
    /\ \A i \in DOMAIN rings : AsGiven(rings[i], written.vec[i])

\* The stored geometry holds what the literal gave: same lengths, same order
StoredAsGiven ==
    LET g == geo.stored
        c == geo.literal.obj["coordinates"]
    IN  /\ g.tag = "Geometry"
        /\ geometry_type(g) = geo.literal.obj["type"]
        /\ CASE g.kind = "Point" -> PointArray(g.coordinates[1], g.coordinates[2]) = c
              [] g.kind = "MultiPoint" -> AsGiven(g.coordinates, c)
              [] g.kind = "Polygon" -> RingsAsGiven(g.coordinates, c)
              [] OTHER ->
                   /\ Len(g.coordinates) = Len(c.vec)
                   /\ \A i \in DOMAIN g.coordinates :
                          RingsAsGiven(g.coordinates[i], c.vec[i])

----------------------------------------------------------------------------
(* Query construction properties, checked under QuerySpec                  *)

IntoQueryReturned == qry.pc = "returned"

\* The sequence a pre-parsed input was made of
Submitted ==
    CASE qry.input.type = "Query" -> qry.input.value.query.statements
      [] qry.input.type = "Statements" -> qry.input.value.statements
      [] OTHER -> qry.input.value.vec

\* The kind of statement each statement struct is
OwnKind ==
    "UseStatement" :> "Use" @@
    "SetStatement" :> "Set" @@
    "InfoStatement" :> "Info" @@
    "LiveStatement" :> "Live" @@
    "KillStatement" :> "Kill" @@
    "BeginStatement" :> "Begin" @@
    "CancelStatement" :> "Cancel" @@
    "CommitStatement" :> "Commit" @@
    "OutputStatement" :> "Output" @@
    "IfelseStatement" :> "Ifelse" @@
    "SelectStatement" :> "Select" @@
    "CreateStatement" :> "Create" @@
    "UpdateStatement" :> "Update" @@
    "RelateStatement" :> "Relate" @@
    "DeleteStatement" :> "Delete" @@
    "InsertStatement" :> "Insert" @@
    "DefineStatement" :> "Define" @@
    "RemoveStatement" :> "Remove" @@
    "OptionStatement" :> "Option"

\* C23: into_query preserves the submission exactly: a pre-parsed sequence
\* (Query, Statements, Vec<Statement>) comes back with the same statements
\* at the same positions and the same length; a single statement of any
\* kind comes back as a one-element sequence holding it under its own kind;
\* raw text (&str, &String, String) gives exactly the parser's statements,
\* or the parser's error and no statements.
C23_SubmissionPreserved ==
    IntoQueryReturned =>
        LET type == qry.input.type
            ret == qry.ret
        IN  /\ type \in {"Query", "Statements", "Vec"} =>
                   /\ ret.kind = "Ok"
                   /\ Len(ret.val) = Len(Submitted)
                   /\ \A i \in DOMAIN Submitted : ret.val[i] = Submitted[i]
            /\ type = "Statement" => ret = Ok(<<qry.input.value>>)
            /\ type \in DOMAIN Variant =>
                   ret = Ok(<<Stmt(OwnKind[type], qry.input.value)>>)
            /\ type \in {"&str", "&String", "String"} =>
                   LET parsed == parse(qry.input.value.text) IN
                   IF parsed.kind = "Ok"
                   THEN ret = Ok(parsed.val.query.statements)
                   ELSE /\ ret.kind = "Err"
                        /\ ret.err = Error_from(parsed.err)

\* Text holding the same statement twice gave that statement twice
C23_Witness ==
    /\ IntoQueryReturned
    /\ qry.input = Input("&str", [text |-> <<"SELECT 1", "SELECT 1">>])
    /\ qry.ret = Ok(<<Stmt("Select", Struct(1)), Stmt("Select", Struct(1))>>)

\* Malformed text gave the parser's error
C23_ParseFailed ==
    /\ IntoQueryReturned
    /\ qry.input = Input("String", [text |-> <<"BEGIN", "SELEC">>])
    /\ qry.ret = Err(Error_from([parse |-> 2]))

----------------------------------------------------------------------------
(* Result extraction properties, checked under Spec (continued)            *)

\* The resolved value of slot j of map m
ResolvedAt(m, j) == Resolved(m[j].result.val)

\* The latest call was a keyed Option take that found its key in the
\* non-empty Object the slot resolves to
FoundField ==
    /\ Matched
    /\ ResolvedAt(pre, last.index).tag = "Object"
    /\ last.key \in DOMAIN ResolvedAt(pre, last.index).obj

\* C24: a keyed Option take whose resolved value is a non-empty Object with
\* the key removes that field only and keeps the slot with the other
\* fields, so that a following take of another field of the object returns
\* that field decoded; taking two distinct fields gives the same two results
\* and the same final map in either order.
C24_TakesOneField ==
    FoundField =>
        LET i == last.index
            fields == ResolvedAt(pre, i).obj
            others == DOMAIN fields \ {last.key}
        IN  /\ last.ret = from_value_Option(fields[last.key])
            /\ DOMAIN post = DOMAIN pre
            /\ \A j \in DOMAIN pre \ {i} : post[j] = pre[j]
            /\ post[i].stats = pre[i].stats
            /\ post[i].result.kind = "Ok"
            /\ Single(post[i].result.val) = Single(pre[i].result.val)
            /\ ResolvedAt(post, i).tag = "Object"
            /\ DOMAIN ResolvedAt(post, i).obj = others
            /\ \A k2 \in others :
                   LET second == Option_key_query_result(post, i, k2)
                       first == Option_key_query_result(pre, i, k2)
                       swapped == Option_key_query_result(first.map, i, last.key)
                   IN  /\ ResolvedAt(post, i).obj[k2] = fields[k2]
                       /\ second.ret = from_value_Option(fields[k2])
                       /\ first.ret = second.ret
                       /\ swapped.ret = last.ret
                       /\ swapped.map = second.map

\* Field v was taken from the record of a one-record array that an earlier
\* take had left without its id (a response holds such records whole)
C24_Witness ==
    /\ FoundField
    /\ last.key = "v"
    /\ pre[last.index].result.val = Array(<<Object([k \in {"v"} |-> FieldOf(k)])>>)
    /\ last.ret = Ok(Some(5))
    /\ post[last.index].result.val = Array(<<Object(<< >>)>>)

\* The latest call was an index-only Option or Vec take that returned a
\* decode error
DecodeFailed ==
    /\ Took("Option") \/ Took("Vec")
    /\ ByIndex
    /\ last.ret = Err(FromValue)

\* C25: an index-only Option or Vec take consumes the slot even when the
\* decode fails: after it has returned a decode error the slot is not in
\* the map any more, the other slots are as they were, and a retry at the
\* index with any type or shape returns no value, the none value or an
\* empty collection, never the stored data.
C25_DecodeErrorConsumesSlot ==
    DecodeFailed =>
        /\ PresentOk
        /\ post = Remove(pre, last.index)
        /\ last.index \notin DOMAIN post
        /\ \A j \in DOMAIN pre \ {last.index} : post[j] = pre[j]
        /\ TakesAt(post, last.index) = TakesAtAbsent
        /\ last.target = "map" => map = post
        /\ last.target = "carried" => carried = <<post>>

\* A Vec take by index failed to decode a record, and the slot is gone
C25_Witness ==
    /\ DecodeFailed
    /\ Took("Vec")
    /\ Stored = Array(<<Record>>)
    /\ last.index \notin DOMAIN post
    /\ Value_usize_query_result(post, last.index).ret = Ok(None)

----------------------------------------------------------------------------
(* Upgrade command properties, checked under UpgradeSpec                   *)

DryRun == upg.pc # "idle" /\ upg.dry_run

\* C26: with --dry-run the upgrade command never replaces the executable:
\* on every path through init (installed version, unsupported arch or OS,
\* failed download or unarchive, success) the file at the path of the
\* current executable is neither removed, renamed nor overwritten, and
\* replace_exe is never called.
C26_DryRunKeepsExecutable ==
    DryRun =>
        /\ upg.files.exe = "old"
        /\ upg.files.backup = "none"
        /\ upg.files.replaced = 0

\* A dry run went through download and unarchive and returned Ok
C26_Witness ==
    /\ DryRun
    /\ upg.pc = "returned"
    /\ upg.ret = "Ok"
    /\ upg.from = "unarchived"
    /\ upg.files.exe = "old"
    /\ upg.files.replaced = 0

====
